---- MODULE Spec2Model ----
(***************************************************************************)
(* A model of xdrt: the XVI session reconstruction (xvi_reader.py), the    *)
(* XDR container reader (xdr_reader.py: XDRHeader, read) and the           *)
(* post-processing of a decoded volume (postprocess_xdr_image).            *)
(*                                                                         *)
(* Six specifications share the module:                                    *)
(*   SpecXVI     XVIFile construction over a configuration document        *)
(*   SpecHeader  XDRHeader construction over a header_dict, and spacing    *)
(*   SpecScan    the header scan of read(), byte by byte                   *)
(*   SpecScanFair  the header scan, with the turns of its loop taken       *)
(*   SpecRead    read() over an XDR file, phase by phase                   *)
(*   SpecPost    postprocess_xdr_image over a decoded 4D/3D volume         *)
(***************************************************************************)
EXTENDS Integers, Sequences, FiniteSets, TLC

VARIABLES
    xvi_dict,     \* the sections of the configuration document, in file order
    xvi_pc,       \* new before XVIFile(...) is called, done after
    xvi_file,     \* <<>> or <<the constructed XVIFile>>
    xvi_error,    \* empty or the exception XVIFile(...) raised
    xvi_log,      \* the warnings XVIFile(...) logged
    xdr_file,     \* the XDR file read() is called on: its header and the bytes after it
    ext_file,     \* <<>> or <<size>>: the sibling file of the XDR file, if there is one
    stop_before_data,             \* the argument of read()
    nki_decompression_available,  \* the module-level flag
    read_pc,      \* where read() is: call, header, decode, extents, done
    file_handler, \* the stream read() holds: which file, and tell()
    open_files,   \* the files opened by read() and not closed
    header,       \* <<>> or <<the XDRHeader>>
    raw_data,     \* the number of elements of raw_data
    data_shape,   \* <<>> or <<the shape of the data of the XDRImage returned>>
    decompress_calls,  \* the calls of nki_private_decompress made by read()
    read_result,  \* empty while running, then what read() returned or raised
    post_args,    \* temporal_average, slope, intercept, cast of postprocess_xdr_image
    given_image,  \* the XDRImage as it was when postprocess_xdr_image was called
    xdr_image,    \* the XDRImage, which postprocess_xdr_image changes in place
    post_pc,      \* call before postprocess_xdr_image runs, done after
    post_log,     \* the warnings logged
    post_result,  \* empty, then what postprocess_xdr_image returned or raised
    hdr_dict,     \* the header_dict an XDRHeader is constructed from
    hdr_pc,       \* new, then built or failed, then extents, then spacing
    hdr,          \* <<>> or <<the XDRHeader constructed>>
    hdr_error,    \* empty or the exception XDRHeader(header_dict) raised
    hdr_spacing,  \* <<>>, then what header.spacing returned or raised
    stream,       \* the bytes of the file the header scan of read() runs on
    scan_pc,      \* scan while the loop over the bytes runs, then lines, then done
    stream_tell,  \* the position of the stream: the bytes read so far
    text_header,  \* the bytes kept as header text
    form_feed,    \* whether the byte before was a form feed
    initial_header,  \* the first characters, decoded
    header_counter,  \* the bytes kept so far
    scan_dict,    \* <<>> or <<the header_dict built from the lines>>
    scan_error    \* empty or the exception the scan raised

xvi_vars == <<xvi_dict, xvi_pc, xvi_file, xvi_error, xvi_log>>

read_vars == <<xdr_file, ext_file, stop_before_data, nki_decompression_available,
               read_pc, file_handler, open_files, header, raw_data, data_shape,
               decompress_calls, read_result>>

post_vars == <<post_args, given_image, xdr_image, post_pc, post_log, post_result>>

hdr_vars == <<hdr_dict, hdr_pc, hdr, hdr_error, hdr_spacing>>

scan_vars == <<stream, scan_pc, stream_tell, text_header, form_feed, initial_header,
               header_counter, scan_dict, scan_error>>

vars == <<xvi_vars, read_vars, post_vars, hdr_vars, scan_vars>>

(***************************************************************************)
(* Generic helpers                                                         *)
(***************************************************************************)
RECURSIVE SumSeq(_)
SumSeq(s) == IF s = <<>> THEN 0 ELSE Head(s) + SumSeq(Tail(s))

RECURSIVE Flatten(_)
Flatten(ss) == IF ss = <<>> THEN <<>> ELSE Head(ss) \o Flatten(Tail(ss))

(***************************************************************************)
(* Text: a Python str is a sequence of atoms. An atom is one character     *)
(* ("=", " ", "/", "-", "3") or a run of ordinary characters that no       *)
(* operation of the code looks into ("vol.raw").                           *)
(***************************************************************************)
\* str.split(sep): the pieces between the occurrences of sep, at least one.
RECURSIVE Split(_, _)
Split(text, sep) ==
    IF text = <<>> THEN << <<>> >>
    ELSE LET front == Split(SubSeq(text, 1, Len(text) - 1), sep)
             last == text[Len(text)]
         IN  IF last = sep THEN Append(front, <<>>)
             ELSE [front EXCEPT ![Len(front)] = Append(@, last)]

\* sep.join(pieces)
RECURSIVE Join(_, _)
Join(pieces, sep) ==
    IF pieces = <<>> THEN <<>>
    ELSE IF Len(pieces) = 1 THEN pieces[1]
    ELSE pieces[1] \o <<sep>> \o Join(Tail(pieces), sep)

\* The surrounding blanks int() ignores.
RECURSIVE Strip(_)
Strip(text) ==
    IF text = <<>> THEN <<>>
    ELSE IF Head(text) = " " THEN Strip(Tail(text))
    ELSE IF text[Len(text)] = " " THEN Strip(SubSeq(text, 1, Len(text) - 1))
    ELSE text

Digit ==
    ("0" :> 0) @@ ("1" :> 1) @@ ("2" :> 2) @@ ("3" :> 3) @@ ("4" :> 4) @@
    ("5" :> 5) @@ ("6" :> 6) @@ ("7" :> 7) @@ ("8" :> 8) @@ ("9" :> 9)

RECURSIVE DigitsValue(_)
DigitsValue(digits) ==
    IF digits = <<>> THEN 0
    ELSE DigitsValue(SubSeq(digits, 1, Len(digits) - 1)) * 10 + Digit[digits[Len(digits)]]

\* int(text): <<the integer>>, or <<>> where int() raises ValueError.
int(text) ==
    LET stripped == Strip(text)
        signed == stripped # <<>> /\ Head(stripped) \in {"+", "-"}
        digits == IF signed THEN Tail(stripped) ELSE stripped
    IN  IF digits = <<>> \/ \E i \in 1..Len(digits) : digits[i] \notin DOMAIN Digit
        THEN <<>>
        ELSE IF signed /\ Head(stripped) = "-" THEN <<-DigitsValue(digits)>>
        ELSE <<DigitsValue(digits)>>

\* str(n) of an integer, as a writer of a header puts it.
RECURSIVE str(_)
str(n) ==
    IF n < 0 THEN <<"-">> \o str(-n)
    ELSE IF n < 10 THEN <<CHOOSE c \in DOMAIN Digit : Digit[c] = n>>
    ELSE str(n \div 10) \o str(n % 10)

(***************************************************************************)
(* The state of each part while another part runs                         *)
(***************************************************************************)
\* Python's None where the code uses it for an absent array or path.
None == <<>>

XVIIdle ==
    /\ xvi_dict = <<>>
    /\ xvi_pc = "idle"
    /\ xvi_file = <<>>
    /\ xvi_error = ""
    /\ xvi_log = {}

ReadIdle ==
    /\ xdr_file = <<>>
    /\ ext_file = None
    /\ stop_before_data = FALSE
    /\ nki_decompression_available = FALSE
    /\ read_pc = "idle"
    /\ file_handler = [file |-> "none", tell |-> 0]
    /\ open_files = {}
    /\ header = <<>>
    /\ raw_data = 0
    /\ data_shape = None
    /\ decompress_calls = 0
    /\ read_result = ""

PostIdle ==
    /\ post_args = <<>>
    /\ given_image = <<>>
    /\ xdr_image = <<>>
    /\ post_pc = "idle"
    /\ post_log = {}
    /\ post_result = ""

HeaderIdle ==
    /\ hdr_dict = <<>>
    /\ hdr_pc = "idle"
    /\ hdr = <<>>
    /\ hdr_error = ""
    /\ hdr_spacing = <<>>

ScanIdle ==
    /\ stream = <<>>
    /\ scan_pc = "idle"
    /\ stream_tell = 0
    /\ text_header = <<>>
    /\ form_feed = FALSE
    /\ initial_header = <<>>
    /\ header_counter = 0
    /\ scan_dict = <<>>
    /\ scan_error = ""

(***************************************************************************)
(* XVI: bounds and inputs                                                  *)
(***************************************************************************)
MaxScans == 4
MaxTick == 6

\* Export timestamps are drawn on a grid of three hours, in seconds.
TickSeconds == 3 * 60 * 60

\* parse_xvi_datetime returns None for an empty datetime string.
NoDatetime == -1

Datetimes == {k * TickSeconds : k \in 0..MaxTick}

\* The keys of a .RECON section: one that XVIScan copies and one it does not.
ReconKeys == {"protocol", "reconstructiondate"}

\* A section of the document: its name and the keys the code reads from it.
\* The section [k.EXPORT] of the k-th exported scan, with its parsed datetime.
ExportSection(k, datetime) ==
    [name |-> str(k) \o <<".EXPORT">>,
     datetime |-> datetime,
     exportedscanid |-> k,
     keys |-> {"datetime", "version", "reconstruction", "exportedscanid"}]

\* The section [k 1.RECON] of the reconstruction of the k-th exported scan.
ReconSection(k) ==
    [name |-> str(k) \o <<" ", "1", ".RECON">>,
     datetime |-> NoDatetime,
     exportedscanid |-> 0,
     keys |-> ReconKeys]

\* .RECON sections are written for scans among the first MaxRecon only.
MaxRecon == 1

RECURSIVE InOrder(_)
InOrder(S) ==
    IF S = {} THEN <<>>
    ELSE LET m == CHOOSE x \in S : \A y \in S : y <= x
         IN  Append(InOrder(S \ {m}), m)

\* A document: n export sections with the distinct keys 1..n, in file order,
\* then the .RECON sections of the scans of recons (a scan may have none, and
\* a .RECON section may belong to a scan that was never exported).
Document(datetimes, recons) ==
    [i \in 1..Len(datetimes) |-> ExportSection(i, datetimes[i])] \o
    [i \in 1..Cardinality(recons) |-> ReconSection(InOrder(recons)[i])]

ExportDatetimes == UNION {[1..n -> Datetimes \cup {NoDatetime}] : n \in 0..MaxScans}

(***************************************************************************)
(* XVI: the code                                                           *)
(***************************************************************************)
RELEVANT_RECONSTRUCTION_TAGS ==
    {"acqpars", "message", "protocol", "spr", "averagebreathingperiod",
     "fourd_sortingmode", "reconstructionvoxelsize", "airvaluemeasured",
     "watervaluemeasured", "phasehistogram", "tubema", "tubekv", "tubekvlength", "fov"}

\* name.endswith(suffix), for a suffix that is one atom
EndsWith(name, suffix) == name # <<>> /\ name[Len(name)] = suffix

\* name.replace(old, ""), for an old that is one atom
RECURSIVE Replace(_, _)
Replace(name, old) ==
    IF name = <<>> THEN <<>>
    ELSE IF Head(name) = old THEN Replace(Tail(name), old)
    ELSE <<Head(name)>> \o Replace(Tail(name), old)

\* A dict comprehension over items: a key keeps the place of its first item
\* and the value of its last.
RECURSIVE DictOf(_)
DictOf(items) ==
    IF items = <<>> THEN <<>>
    ELSE LET front == DictOf(SubSeq(items, 1, Len(items) - 1))
             last == items[Len(items)]
         IN  IF \E i \in 1..Len(front) : front[i].key = last.key
             THEN [i \in 1..Len(front) |-> IF front[i].key = last.key THEN last ELSE front[i]]
             ELSE Append(front, last)

HasKey(dict, k) == \E i \in 1..Len(dict) : dict[i].key = k

Lookup(dict, k) == dict[CHOOSE i \in 1..Len(dict) : dict[i].key = k].value

\* {_.replace(".EXPORT", ""): xvi_conf[_] for _ in xvi_conf if _.endswith(".EXPORT")}
RECURSIVE ExportItems(_)
ExportItems(xvi_conf) ==
    IF xvi_conf = <<>> THEN <<>>
    ELSE LET section == Head(xvi_conf)
         IN  (IF EndsWith(section.name, ".EXPORT")
              THEN <<[key |-> Replace(section.name, ".EXPORT"), value |-> section]>>
              ELSE <<>>) \o ExportItems(Tail(xvi_conf))

Exports(xvi_conf) == DictOf(ExportItems(xvi_conf))

\* {_.split(" ")[0]: xvi_conf[_] for _ in xvi_conf if _.endswith(".RECON")}
RECURSIVE ReconstructionItems(_)
ReconstructionItems(xvi_conf) ==
    IF xvi_conf = <<>> THEN <<>>
    ELSE LET section == Head(xvi_conf)
         IN  (IF EndsWith(section.name, ".RECON")
              THEN <<[key |-> Split(section.name, " ")[1], value |-> section]>>
              ELSE <<>>) \o ReconstructionItems(Tail(xvi_conf))

Reconstructions(xvi_conf) == DictOf(ReconstructionItems(xvi_conf))

\* The empty dict that stands for the reconstruction of an export without one.
NoReconstruction == [name |-> <<>>, datetime |-> NoDatetime, exportedscanid |-> 0, keys |-> {}]

\* if not reconstructions
NoReconstructions(exports, reconstructions) == reconstructions = <<>>

\* reconstructions[k] for k in exports raises KeyError for a k that has none.
PairingKeyError(exports, reconstructions) ==
    /\ ~NoReconstructions(exports, reconstructions)
    /\ \E i \in 1..Len(exports) : ~HasKey(reconstructions, exports[i].key)

\* The reconstructions of the exports, in the order of the exports.
PairReconstructions(exports, reconstructions) ==
    [i \in 1..Len(exports) |->
        [key |-> exports[i].key,
         value |-> IF NoReconstructions(exports, reconstructions)
                   THEN NoReconstruction
                   ELSE Lookup(reconstructions, exports[i].key)]]

\* XVIScan.__init__: the scan of one export section and its reconstruction,
\* not yet in a fraction; tags are the attributes set from the reconstruction.
XVIScan(reconstruction, export) ==
    [exported_scan_id |-> export.exportedscanid,
     datetime |-> export.datetime,
     fraction_number |-> -1,
     image_number_in_fraction |-> -1,
     tags |-> {tag \in RELEVANT_RECONSTRUCTION_TAGS : tag \in reconstruction.keys}]

\* XVIFraction.__init__
XVIFraction(fraction, scans) ==
    [fraction |-> fraction, scans |-> scans, num_scans |-> Len(scans)]

\* scans.sort(key=lambda x: x.datetime): a stable sort, as an insertion sort
\* that puts an element after every element that is not greater.
RECURSIVE InsertSortedBeforeEquals(_, _)
InsertSortedBeforeEquals(sorted, x) ==
    IF sorted = <<>> THEN <<x>>
    ELSE IF x.datetime <= sorted[Len(sorted)].datetime
         THEN Append(InsertSortedBeforeEquals(SubSeq(sorted, 1, Len(sorted) - 1), x),
                     sorted[Len(sorted)])
         ELSE Append(sorted, x)
RECURSIVE InsertSorted(_, _)
InsertSorted(sorted, x) ==
    IF sorted = <<>> THEN <<x>>
    ELSE IF x.datetime < sorted[Len(sorted)].datetime
         THEN Append(InsertSorted(SubSeq(sorted, 1, Len(sorted) - 1), x), sorted[Len(sorted)])
         ELSE Append(sorted, x)

RECURSIVE SortOnExportTime(_)
SortOnExportTime(scans) ==
    IF scans = <<>> THEN <<>>
    ELSE InsertSorted(SortOnExportTime(SubSeq(scans, 1, Len(scans) - 1)), scans[Len(scans)])

\* Comparing (sorting) or subtracting datetimes raises TypeError when one is None.
DatetimeTypeError(scans) == \E i \in 1..Len(scans) : scans[i].datetime = NoDatetime

\* if time_diff.total_seconds() > 6 * 60 * 60
StartsNewFractionAtSixHours(time_diff) == time_diff >= 6 * 60 * 60
StartsNewFraction(time_diff) == time_diff > 6 * 60 * 60

\* The local variables of __parse_exports before the loop over the scans.
LoopStart ==
    [prev_datetime |-> NoDatetime,
     curr_fraction |-> <<>>,
     fractions |-> <<>>,
     image_number_in_fraction |-> 0,
     curr_fraction_num |-> 0,
     scans |-> <<>>]

\* One iteration of `for scan in scans`.
LoopBody(st, scan) ==
    LET curr_datetime == scan.datetime
        prev_datetime == IF st.prev_datetime = NoDatetime THEN curr_datetime
                         ELSE st.prev_datetime
        time_diff == curr_datetime - prev_datetime
        new == StartsNewFraction(time_diff)
        fractions == IF new
                     THEN Append(st.fractions, XVIFraction(st.curr_fraction_num, st.curr_fraction))
                     ELSE st.fractions
        curr_fraction == IF new THEN <<>> ELSE st.curr_fraction
        curr_fraction_num == IF new THEN st.curr_fraction_num + 1 ELSE st.curr_fraction_num
        image_number_in_fraction == IF new THEN 0 ELSE st.image_number_in_fraction
        numbered == [scan EXCEPT !.fraction_number = curr_fraction_num,
                                 !.image_number_in_fraction = image_number_in_fraction]
    IN  [prev_datetime |-> curr_datetime,
         curr_fraction |-> Append(curr_fraction, numbered),
         fractions |-> fractions,
         image_number_in_fraction |-> image_number_in_fraction + 1,
         curr_fraction_num |-> curr_fraction_num,
         scans |-> Append(st.scans, numbered)]

RECURSIVE Loop(_)
Loop(scans) ==
    IF scans = <<>> THEN LoopStart
    ELSE LoopBody(Loop(SubSeq(scans, 1, Len(scans) - 1)), scans[Len(scans)])

\* "Add last fraction if there were previous scans."
AddsLastFraction(curr_fraction_num) == curr_fraction_num > 0

WithLastFraction(st) ==
    IF AddsLastFraction(st.curr_fraction_num)
    THEN Append(st.fractions, XVIFraction(st.curr_fraction_num, st.curr_fraction))
    ELSE st.fractions

\* has_multiple_scans = [x > 1 for x in scans_per_fraction]
HasMultipleScans(fractions) == [i \in 1..Len(fractions) |-> fractions[i].num_scans > 1]

\* all(has_multiple_scans) and has_multiple_scans
IsSbrt(has_multiple_scans) ==
    /\ \A i \in 1..Len(has_multiple_scans) : has_multiple_scans[i]
    /\ has_multiple_scans # <<>>

\* len(set(has_multiple_scans)) > 1
IsPartlySbrtOffByOne(has_multiple_scans) ==
    Cardinality({has_multiple_scans[i] : i \in 1..Len(has_multiple_scans)}) > 2
IsPartlySbrt(has_multiple_scans) ==
    Cardinality({has_multiple_scans[i] : i \in 1..Len(has_multiple_scans)}) > 1

NoReconWarning == "has no *.RECON keys"

\* __parse_exports: the error raised, the XVIFile fields and the warnings.
ParseExports(xvi_conf) ==
    LET exports == Exports(xvi_conf)
        found == Reconstructions(xvi_conf)
        log == IF NoReconstructions(exports, found) THEN {NoReconWarning} ELSE {}
    IN  IF PairingKeyError(exports, found)
        THEN [error |-> "KeyError", file |-> <<>>, log |-> log]
        ELSE
        LET reconstructions == PairReconstructions(exports, found)
            unsorted == [i \in 1..Len(reconstructions) |->
                            XVIScan(reconstructions[i].value,
                                    Lookup(exports, reconstructions[i].key))]
        IN  IF DatetimeTypeError(unsorted)
            THEN [error |-> "TypeError", file |-> <<>>, log |-> log]
            ELSE LET scans == SortOnExportTime(unsorted)
                     st == Loop(scans)
                     fractions == WithLastFraction(st)
                     has_multiple_scans == HasMultipleScans(fractions)
                 IN  IF IsPartlySbrt(has_multiple_scans)
                     THEN [error |-> "RuntimeError", file |-> <<>>, log |-> log]
                     ELSE [error |-> "",
                           log |-> log,
                           file |-> <<[fractions |-> fractions,
                                       scans |-> st.scans,
                                       is_sbrt |-> IsSbrt(has_multiple_scans),
                                       num_fractions |-> Len(fractions),
                                       num_scans |-> Len(st.scans)]>>]

(***************************************************************************)
(* XVI: the specification                                                  *)
(***************************************************************************)
XVIInit ==
    /\ ReadIdle
    /\ PostIdle
    /\ HeaderIdle
    /\ ScanIdle
    /\ \E datetimes \in ExportDatetimes, recons \in SUBSET (1..MaxRecon) :
            xvi_dict = Document(datetimes, recons)
    /\ xvi_pc = "new"
    /\ xvi_file = <<>>
    /\ xvi_error = ""
    /\ xvi_log = {}

\* XVIFile(xvi_filename): the export sections are parsed, sorted, partitioned
\* into fractions and classified; the object exists only if nothing was raised.
XVIFileInit ==
    /\ xvi_pc = "new"
    /\ LET r == ParseExports(xvi_dict)
       IN  /\ xvi_file' = r.file
           /\ xvi_error' = r.error
           /\ xvi_log' = r.log
    /\ xvi_pc' = "done"
    /\ UNCHANGED <<xvi_dict, read_vars, post_vars, hdr_vars, scan_vars>>

XVINext == XVIFileInit

SpecXVI == XVIInit /\ [][XVINext]_vars

(***************************************************************************)
(* XVI: the claims                                                         *)
(***************************************************************************)
\* The export sections of the document, in file order.
ExportSections == SelectSeq(xvi_dict, LAMBDA section : EndsWith(section.name, ".EXPORT"))

\* The export timestamps of the document in chronological order.
SortedDatetimes ==
    LET sorted == SortOnExportTime(ExportSections)
    IN  [i \in 1..Len(sorted) |-> sorted[i].datetime]

AllDatetimesSet == \A i \in 1..Len(ExportSections) : ExportSections[i].datetime # NoDatetime

\* The lengths of the maximal runs of a chronological timestamp sequence in
\* which no neighbours are more than six hours (21600 s) apart.
RECURSIVE RunLengths(_)
RunLengths(ts) ==
    IF ts = <<>> THEN <<>>
    ELSE IF Len(ts) = 1 THEN <<1>>
    ELSE LET r == RunLengths(SubSeq(ts, 1, Len(ts) - 1))
         IN  IF ts[Len(ts)] - ts[Len(ts) - 1] > 21600
             THEN Append(r, 1)
             ELSE [r EXCEPT ![Len(r)] = @ + 1]

XVIConstructed == xvi_pc = "done" /\ xvi_file # <<>>

\* C1: after a successful construction, concatenating the scans of the
\* fractions in order gives exactly the list `scans`.
C1_FractionsPartitionScans ==
    XVIConstructed =>
        LET f == xvi_file[1].fractions
        IN  Flatten([i \in 1..Len(f) |-> f[i].scans]) = xvi_file[1].scans

\* C2: after a successful construction of a session with at least one scan,
\* is_sbrt is true exactly when every maximal run of scans (every fraction)
\* has more than one scan and false exactly when every run has one scan.
C2_IsSbrtIffEveryFractionHasMultipleScans ==
    (XVIConstructed /\ Len(ExportSections) >= 1) =>
        LET runs == RunLengths(SortedDatetimes)
        IN  /\ xvi_file[1].is_sbrt <=> (\A i \in 1..Len(runs) : runs[i] > 1)
            /\ ~xvi_file[1].is_sbrt <=> (\A i \in 1..Len(runs) : runs[i] = 1)

\* Every export section found its reconstruction, so the scans were built.
ScansBuilt == ~PairingKeyError(Exports(xvi_dict), Reconstructions(xvi_dict))

\* The scans were partitioned, and some fraction has exactly one scan and some
\* other fraction has more.
MixedFractions ==
    /\ ScansBuilt
    /\ AllDatetimesSet
    /\ LET runs == RunLengths(SortedDatetimes)
       IN  /\ \E i \in 1..Len(runs) : runs[i] = 1
           /\ \E i \in 1..Len(runs) : runs[i] > 1

\* C3: when the partition mixes single-scan and multi-scan fractions, the
\* construction raises and no XVIFile (no fractions, no is_sbrt) exists.
C3_MixedFractionsRaise ==
    (xvi_pc = "done" /\ MixedFractions) =>
        (xvi_file = <<>> /\ xvi_error = "RuntimeError")

C3_Witness ==
    /\ xvi_pc = "done"
    /\ MixedFractions
    /\ xvi_error = "RuntimeError"
    /\ Len(RunLengths(SortedDatetimes)) = 3

\* C4: the first sorted scan is numbered (0, 0); a later scan starts fraction
\* n+1 at image 0 if it is strictly more than 21600 s after the scan before
\* it, and otherwise continues fraction n with the next image number.
C4_FractionNumbering ==
    XVIConstructed =>
        LET s == xvi_file[1].scans
        IN  \A i \in 1..Len(s) :
                IF i = 1
                THEN s[i].fraction_number = 0 /\ s[i].image_number_in_fraction = 0
                ELSE IF s[i].datetime - s[i - 1].datetime > 21600
                THEN /\ s[i].fraction_number = s[i - 1].fraction_number + 1
                     /\ s[i].image_number_in_fraction = 0
                ELSE /\ s[i].fraction_number = s[i - 1].fraction_number
                     /\ s[i].image_number_in_fraction = s[i - 1].image_number_in_fraction + 1

\* Two gaps of exactly 21600 s in a row (12 h from the first scan of the
\* fraction) stay in fraction 0, and a longer gap then starts fraction 1.
C4_Witness ==
    /\ XVIConstructed
    /\ LET s == xvi_file[1].scans
       IN  /\ Len(s) >= 3
           /\ s[2].datetime - s[1].datetime = 21600
           /\ s[3].datetime - s[2].datetime = 21600
           /\ s[3].fraction_number = 0
           /\ s[3].image_number_in_fraction = 2

C4_WitnessNewFraction ==
    /\ XVIConstructed
    /\ LET s == xvi_file[1].scans
       IN  /\ Len(s) = 4
           /\ s[2].datetime - s[1].datetime = 21600
           /\ s[3].datetime - s[2].datetime > 21600
           /\ s[3].fraction_number = 1
           /\ s[4].image_number_in_fraction = 1

\* The place in the document of the export section a scan was built from.
ExportPosition(scan) ==
    CHOOSE i \in 1..Len(ExportSections) :
        ExportSections[i].exportedscanid = scan.exported_scan_id

\* Some export section comes before a section with an earlier timestamp.
DocumentOutOfOrder ==
    \E i, j \in 1..Len(ExportSections) :
        i < j /\ ExportSections[i].datetime > ExportSections[j].datetime

\* C22: after a successful construction `scans` holds one scan per export
\* section, ordered by export timestamp ascending, and scans with equal
\* timestamps are in the order of their export sections in the document.
C22_ScansSortedStable ==
    XVIConstructed =>
        LET s == xvi_file[1].scans
        IN  /\ Len(s) = Len(ExportSections)
            /\ \A i \in 1..Len(s) - 1 :
                    \/ s[i].datetime < s[i + 1].datetime
                    \/ /\ s[i].datetime = s[i + 1].datetime
                       /\ ExportPosition(s[i]) < ExportPosition(s[i + 1])

\* A document that is not in chronological order and has two export sections
\* with one timestamp: the sort moved scans and kept the tie in file order.
C22_Witness ==
    /\ XVIConstructed
    /\ DocumentOutOfOrder
    /\ LET s == xvi_file[1].scans
       IN  \E i \in 1..Len(s) - 1 :
               /\ s[i].datetime = s[i + 1].datetime
               /\ ExportPosition(s[i]) < ExportPosition(s[i + 1])
               /\ ExportPosition(s[i]) > 1

\* The .RECON sections of the document, in file order.
ReconSections == SelectSeq(xvi_dict, LAMBDA section : EndsWith(section.name, ".RECON"))

\* The name of an export section without its suffix.
KeyPrefix(export) == SubSeq(export.name, 1, Len(export.name) - 1)

\* The .RECON sections whose names start with the key prefix of an export section.
SharingKeyPrefix(export) ==
    {i \in 1..Len(ReconSections) :
        /\ Len(ReconSections[i].name) > Len(KeyPrefix(export))
        /\ SubSeq(ReconSections[i].name, 1, Len(KeyPrefix(export))) = KeyPrefix(export)}

\* Nothing but the pairing can fail: every export section has a timestamp and
\* the timestamps do not mix single-scan and multi-scan fractions.
NothingElseFails ==
    /\ AllDatetimesSet
    /\ LET runs == RunLengths(SortedDatetimes)
       IN  ~((\E i \in 1..Len(runs) : runs[i] = 1) /\ (\E i \in 1..Len(runs) : runs[i] > 1))

\* The scan built from the export section at a place of the document.
ScanOf(i) ==
    LET s == xvi_file[1].scans
    IN  s[CHOOSE j \in 1..Len(s) : s[j].exported_scan_id = ExportSections[i].exportedscanid]

\* C25: without any .RECON section the construction succeeds with a warning,
\* one scan per export section and no acquisition attribute on any scan; with
\* at least one .RECON section it succeeds with one scan per export section,
\* each holding the attributes of the .RECON section sharing its key prefix.
C25_OneScanPerExport ==
    (xvi_pc = "done" /\ NothingElseFails) =>
        /\ XVIConstructed
        /\ Len(xvi_file[1].scans) = Len(ExportSections)
        /\ xvi_file[1].num_scans = Len(ExportSections)
        /\ IF ReconSections = <<>>
           THEN /\ NoReconWarning \in xvi_log
                /\ \A i \in 1..Len(ExportSections) : ScanOf(i).tags = {}
           ELSE \A i \in 1..Len(ExportSections) :
                    \A r \in SharingKeyPrefix(ExportSections[i]) :
                        ScanOf(i).tags = ReconSections[r].keys \cap RELEVANT_RECONSTRUCTION_TAGS

(***************************************************************************)
(* XDR: the header                                                         *)
(***************************************************************************)
\* XDR_DTYPE_TO_PYTHON
XDR_DTYPE_TO_PYTHON ==
    ("xdr_real" :> "f4") @@ ("xdr_float" :> "f4") @@ ("xdr_double" :> "f8") @@
    ("xdr_short" :> "i2") @@ ("xdr_integer" :> "i4") @@ ("byte" :> "uint8")

\* The size in bytes of one element of a numpy dtype.
ItemSize(dtype) ==
    CASE dtype = "f4" -> 4
      [] dtype = "f8" -> 8
      [] dtype = "i2" -> 2
      [] dtype = "i4" -> 4
      [] dtype = "uint8" -> 1

\* Phase weights are counted in units of 1/10000, so that the tolerance
\* 0.9999 <= sum <= 1.0001 is 9999 <= sum <= 10001.
PhaseUnit == 10000

DimNames == <<"dim1", "dim2", "dim3", "dim4", "dim5">>

\* shape[::-1]
ReverseKeepsOrder(s) == s
Reverse(s) == [i \in 1..Len(s) |-> s[Len(s) + 1 - i]]

RECURSIVE Prod(_)
Prod(s) == IF s = <<>> THEN 1 ELSE Head(s) * Prod(Tail(s))

\* header_dict.get(key, default)
Get(header_dict, key, default) ==
    IF key \in DOMAIN header_dict THEN header_dict[key] ELSE default

\* XDRHeader.parse_array_keys for #$$PH: <<error, phase>>. The value of the
\* key is the sequence of its weights, in units of 1/PhaseUnit.
ParsePhase(header_dict, ndim, shape) ==
    LET array == Get(header_dict, "#$$PH", None)
    IN  IF array = None THEN [error |-> "", phase |-> None]
        ELSE IF shape = <<>> THEN [error |-> "IndexError", phase |-> None]
        ELSE IF Len(array) # shape[1]
             THEN \* the message of the ValueError takes len() of an int
                  [error |-> "TypeError", phase |-> None]
        ELSE IF ndim # 4 THEN [error |-> "ValueError", phase |-> None]
        ELSE IF ~(PhaseUnit - 1 <= SumSeq(array) /\ SumSeq(array) <= PhaseUnit + 1)
             THEN [error |-> "ValueError", phase |-> None]
        ELSE [error |-> "", phase |-> array]

\* The external path: f"{p}/" + the text before the first blank of the value.
ExternalData(header_dict) ==
    LET p == header_dict["xdr_filename"]
        prefix == IF p # <<>> THEN p \o <<"/">> ELSE p
    IN  prefix \o Split(header_dict["variable 1 file"], " ")[1]

\* The dim{i} keys of the first ndim axes that are absent or that int() rejects.
BadDims(header_dict, ndim) ==
    {idx \in 1..ndim : \/ DimNames[idx] \notin DOMAIN header_dict
                       \/ int(header_dict[DimNames[idx]]) = <<>>}

\* XDRHeader.__parse_header: <<error, the attributes it sets>>.
ParseHeader(header_dict) ==
    LET Fail(e) == [error |-> e, attrs |-> None]
    IN  IF ~({"ndim", "field"} \subseteq DOMAIN header_dict) THEN Fail("IOError")
        ELSE IF header_dict["field"] \notin {"uniform", "rectilinear"}
             THEN Fail("NotImplementedError")
        ELSE IF int(header_dict["ndim"]) = <<>> THEN Fail("ValueError")
        ELSE LET ndim == int(header_dict["ndim"])[1]
                 dim_names == [idx \in 1..ndim |-> DimNames[idx]]
                 bad == BadDims(header_dict, ndim)
                 first == CHOOSE idx \in bad : \A other \in bad : idx <= other
                 compression == Get(header_dict, "nki_compression", <<"0">>)
             IN  IF bad # {}
                 THEN IF dim_names[first] \notin DOMAIN header_dict
                      THEN Fail("IOError") ELSE Fail("ValueError")
                 ELSE IF "veclen" \notin DOMAIN header_dict THEN Fail("KeyError")
                 ELSE IF int(header_dict["veclen"]) = <<>> THEN Fail("ValueError")
                 ELSE IF int(compression) = <<>> THEN Fail("ValueError")
                 ELSE IF "data" \notin DOMAIN header_dict THEN Fail("KeyError")
                 ELSE IF header_dict["data"] \notin DOMAIN XDR_DTYPE_TO_PYTHON
                      THEN Fail("KeyError")
                 ELSE LET shape == [idx \in 1..ndim |-> int(header_dict[dim_names[idx]])[1]]
                          ph == ParsePhase(header_dict, ndim, Reverse(shape))
                      IN  IF ph.error # "" THEN Fail(ph.error)
                          ELSE [error |-> "",
                                attrs |->
                                  [field |-> header_dict["field"],
                                   ndim |-> ndim,
                                   veclen |-> int(header_dict["veclen"])[1],
                                   file_shape |-> shape,
                                   shape |-> Reverse(shape),
                                   size |-> Prod(shape),
                                   compression |-> int(compression)[1],
                                   original_dtype |-> header_dict["data"],
                                   dtype |-> XDR_DTYPE_TO_PYTHON[header_dict["data"]],
                                   phase |-> ph.phase,
                                   external_data |->
                                     IF "variable 1 file" \in DOMAIN header_dict
                                     THEN ExternalData(header_dict)
                                     ELSE None]]

\* What XDRHeader.__init__ does after self.__parse_header().
AfterParse(attrs) ==
    [attrs EXCEPT !.phase = None] @@ (("min_ext" :> <<>>) @@ ("max_ext" :> <<>>))

\* XDRHeader(header_dict): <<error, header>>.
XDRHeader(header_dict) ==
    LET parsed == ParseHeader(header_dict)
    IN  IF parsed.error # "" THEN [error |-> parsed.error, header |-> <<>>]
        ELSE [error |-> "", header |-> <<AfterParse(parsed.attrs)>>]

(***************************************************************************)
(* XDR: constructing a header and asking for its spacing                   *)
(***************************************************************************)
\* The path read() is called with, the directory of that file, and the
\* sibling file in that directory that an external header names.
XdrFilename == <<"data", "/", "vol.xdr">>
XdrDirectory == <<"data">>
SiblingFile == <<"data", "/", "vol.raw">>

\* The largest size a dim{i} line gives.
MaxDim == 2

\* What a header can have for dim{i}: the text of an integer from -1 up, a
\* text that is no integer, or no such line at all.
NoLine == <<"no line">>
DimTexts == {str(n) : n \in -1..MaxDim} \cup {<<"x">>, NoLine}

ConstructionPhases == {None, <<5000, 5000>>, <<5000, 4000>>, <<10000>>}

\* The header_dict of a header with n axes.
ConstructionDict(n, field, texts, phase) ==
    ("xdr_filename" :> XdrFilename) @@ ("ndim" :> n) @@ ("field" :> field) @@
    [k \in {DimNames[i] : i \in {j \in 1..Len(texts) : texts[j] # NoLine}} |->
        texts[CHOOSE i \in 1..Len(texts) : DimNames[i] = k]] @@
    ("veclen" :> str(1)) @@ ("data" :> "xdr_short") @@
    (IF phase # None THEN "#$$PH" :> phase ELSE <<>>)

ConstructionDicts ==
    UNION {{ConstructionDict(str(n), field, texts, phase) :
               field \in {"uniform", "rectilinear"},
               texts \in [1..n -> DimTexts],
               phase \in ConstructionPhases} : n \in {3, 4}}
    \cup {ConstructionDict(<<"x">>, "uniform", <<>>, None),
          ConstructionDict(str(3), "curvilinear", <<str(1), str(1), str(1)>>, None)}

\* The extents read() finds after the payload, in mm: min_ext is 0 on every
\* axis and max_ext is the same on every axis.
ExtentValues == {0, 30}

\* A float of a spacing vector: finite (in thousandths), inf, -inf or nan.
Finite(milli) == [kind |-> "finite", milli |-> milli]
NotFinite(kind) == [kind |-> kind, milli |-> 0]

\* round(n / d, 3) for d > 0, half to even, in thousandths.
RoundMilli(n, d) ==
    LET floor == (1000 * n) \div d
        rest == (1000 * n) % d
    IN  IF 2 * rest < d THEN floor
        ELSE IF 2 * rest > d THEN floor + 1
        ELSE IF floor % 2 = 0 THEN floor ELSE floor + 1

\* The float division n / d of numpy, rounded by np.round(..., 3): a division
\* by zero gives inf, -inf or nan and a RuntimeWarning, never an exception.
Divide(n, d) ==
    IF d = 0 THEN (IF n = 0 THEN NotFinite("nan")
                   ELSE IF n > 0 THEN NotFinite("inf") ELSE NotFinite("-inf"))
    ELSE IF d < 0 THEN Finite(RoundMilli(-n, -d))
    ELSE Finite(RoundMilli(n, d))

\* Two one-dimensional arrays broadcast if they are as long as each other or
\* one has a single element.
Broadcasts(a, b) == Len(a) = Len(b) \/ Len(a) = 1 \/ Len(b) = 1
BroadcastLen(a, b) == IF Len(a) = 1 THEN Len(b) ELSE Len(a)
At(a, i) == IF Len(a) = 1 THEN a[1] ELSE a[i]

\* XDRHeader.spacing: <<error, the spacing vector>>.
Spacing(h) ==
    IF h.min_ext = <<>> /\ h.max_ext # <<>>
    THEN [error |-> "ValueError: min_ext and max_ext need to be set", value |-> <<>>]
    ELSE IF ~Broadcasts(h.max_ext, h.min_ext)
    THEN [error |-> "ValueError: broadcast", value |-> <<>>]
    ELSE LET diff == [i \in 1..BroadcastLen(h.max_ext, h.min_ext) |->
                        At(h.max_ext, i) - At(h.min_ext, i)]
         IN  IF h.field = "uniform"
             THEN IF ~Broadcasts(diff, h.file_shape)
                  THEN [error |-> "ValueError: broadcast", value |-> <<>>]
                  ELSE [error |-> "",
                        value |-> [i \in 1..BroadcastLen(diff, h.file_shape) |->
                                     Divide(At(diff, i), At(h.file_shape, i) - 1)]]
             ELSE IF Len(diff) # h.ndim
             THEN [error |-> "NotImplementedError", value |-> <<>>]
             ELSE \* diff / shape - 1
                  [error |-> "",
                   value |-> [i \in 1..h.ndim |->
                                Divide(diff[i] - h.file_shape[i], h.file_shape[i])]]

HeaderInit ==
    /\ XVIIdle
    /\ ReadIdle
    /\ PostIdle
    /\ ScanIdle
    /\ hdr_dict \in ConstructionDicts
    /\ hdr_pc = "new"
    /\ hdr = <<>>
    /\ hdr_error = ""
    /\ hdr_spacing = <<>>

\* XDRHeader(header_dict)
Construct ==
    /\ hdr_pc = "new"
    /\ LET r == XDRHeader(hdr_dict)
       IN  /\ hdr' = r.header
           /\ hdr_error' = r.error
           /\ hdr_pc' = IF r.error = "" THEN "built" ELSE "failed"
    /\ UNCHANGED <<hdr_dict, hdr_spacing, xvi_vars, read_vars, post_vars, scan_vars>>

\* read(), lines 368-370: one min_ext and one max_ext appended per axis.
SetExtents ==
    /\ hdr_pc = "built"
    /\ \E max \in ExtentValues :
         hdr' = <<[hdr[1] EXCEPT !.min_ext = [i \in 1..hdr[1].ndim |-> 0],
                                 !.max_ext = [i \in 1..hdr[1].ndim |-> max]]>>
    /\ hdr_pc' = "extents"
    /\ UNCHANGED <<hdr_dict, hdr_error, hdr_spacing, xvi_vars, read_vars, post_vars, scan_vars>>

\* header.spacing
GetSpacing ==
    /\ hdr_pc \in {"built", "extents"}
    /\ hdr_spacing' = <<Spacing(hdr[1])>>
    /\ hdr_pc' = "spacing"
    /\ UNCHANGED <<hdr_dict, hdr, hdr_error, xvi_vars, read_vars, post_vars, scan_vars>>

HeaderNext ==
    \/ Construct
    \/ SetExtents
    \/ GetSpacing

SpecHeader == HeaderInit /\ [][HeaderNext]_vars

(***************************************************************************)
(* XDR: the claims about the header                                        *)
(***************************************************************************)
\* The construction has run on a dictionary whose ndim is an integer.
Constructed == hdr_pc \notin {"idle", "new"} /\ int(hdr_dict["ndim"]) # <<>>

GivenNdim == int(hdr_dict["ndim"])[1]

\* There is a dim{i} line and its text is an integer.
DimIsInteger(i) ==
    DimNames[i] \in DOMAIN hdr_dict /\ int(hdr_dict[DimNames[i]]) # <<>>

GivenDim(i) == int(hdr_dict[DimNames[i]])[1]

\* C17: construction fails whenever some dim{i}, i in 1..ndim, is absent or
\* is not a positive integer (0 and negative values included).
C17_DimsMustBePositive ==
    (/\ Constructed
     /\ \E i \in 1..GivenNdim : ~DimIsInteger(i) \/ GivenDim(i) <= 0) =>
        (hdr = <<>> /\ hdr_error # "")

\* A dictionary with a phase array that is valid in everything but, maybe,
\* the phase: a supported field, ndim an integer, every dim{i} a positive
\* integer.
ValidButForPhase ==
    /\ Constructed
    /\ "#$$PH" \in DOMAIN hdr_dict
    /\ hdr_dict["field"] \in {"uniform", "rectilinear"}
    /\ \A i \in 1..GivenNdim : DimIsInteger(i) /\ GivenDim(i) > 0

\* ndim = 4, one weight per time step, and a sum within 1/10000 of 1.
PhaseIsValid ==
    /\ GivenNdim = 4
    /\ Len(hdr_dict["#$$PH"]) = GivenDim(GivenNdim)
    /\ 9999 <= SumSeq(hdr_dict["#$$PH"])
    /\ SumSeq(hdr_dict["#$$PH"]) <= 10001

\* C18: a header with a phase array is constructed only if the phase is
\* valid, and in each violating case construction fails with ValueError.
C18_PhaseValidation ==
    ValidButForPhase =>
        /\ (hdr # <<>> => PhaseIsValid)
        /\ (~PhaseIsValid => hdr_error = "ValueError")

\* C20: asking a uniform header with populated extents, positive sizes and an
\* axis of size 1 for its spacing raises an error, and returns no vector with
\* inf or nan.
C20_SpacingOfSingletonAxisRaises ==
    (/\ hdr_pc = "spacing"
     /\ hdr[1].field = "uniform"
     /\ hdr[1].max_ext # <<>>
     /\ \A i \in 1..hdr[1].ndim : hdr[1].file_shape[i] >= 1
     /\ \E i \in 1..hdr[1].ndim : hdr[1].file_shape[i] = 1) =>
        /\ hdr_spacing[1].error # ""
        /\ \A i \in 1..Len(hdr_spacing[1].value) : hdr_spacing[1].value[i].kind = "finite"

(***************************************************************************)
(* XDR: the header scan of read(), byte by byte                            *)
(***************************************************************************)
\* The most bytes between the start of a stream and its end or terminator.
MaxBody == 5

\* The characters of the bytes below 128 that the streams are made of; LF and
\* FF stand for the line feed and the form feed character. A byte from 128
\* on is no UTF-8 text by itself.
Chr ==
    (10 :> "LF") @@ (12 :> "FF") @@ (32 :> " ") @@ (35 :> "#") @@ (61 :> "=") @@
    (65 :> "A") @@ (83 :> "S") @@ (86 :> "V") @@ (107 :> "k")

\* Streams: nothing, the magic, or the magic and a line feed; then some bytes
\* out of line feed, form feed, =, k and the byte 255; then nothing or two
\* form feeds.
StreamStarts == {<<>>, <<35, 32, 65, 86, 83>>, <<35, 32, 65, 86, 83, 10>>}
BodyBytes == {10, 12, 61, 107, 255}
StreamEnds == {<<>>, <<12, 12>>}

Streams ==
    {start \o body \o end :
        start \in StreamStarts,
        body \in UNION {[1..n -> BodyBytes] : n \in 0..MaxBody},
        end \in StreamEnds}

\* ord(next_character) == 12 and form_feed
IsTerminatorAtAnyFormFeed(next_character, was_form_feed) == next_character = 12
IsTerminator(next_character, was_form_feed) == next_character = 12 /\ was_form_feed

\* character.decode("utf-8") of one byte: <<the character>>, or <<>> where it
\* raises UnicodeDecodeError.
Decode(character) == IF character < 128 THEN <<Chr[character]>> ELSE <<>>

\* The decoded header: undecodable bytes become the marker.
DecodeHeader(bytes) ==
    [i \in 1..Len(bytes) |->
        IF Decode(bytes[i]) = <<>> THEN "__#ERR#__" ELSE Decode(bytes[i])[1]]

\* str.splitlines(): the line boundaries among the characters are the line
\* feed and the form feed; a boundary at the very end opens no further line.
RECURSIVE SplitAtBoundaries(_)
SplitAtBoundaries(text) ==
    IF text = <<>> THEN << <<>> >>
    ELSE LET front == SplitAtBoundaries(SubSeq(text, 1, Len(text) - 1))
             last == text[Len(text)]
         IN  IF last \in {"LF", "FF"} THEN Append(front, <<>>)
             ELSE [front EXCEPT ![Len(front)] = Append(@, last)]

SplitLines(text) ==
    LET pieces == SplitAtBoundaries(text)
    IN  IF pieces[Len(pieces)] = <<>> THEN SubSeq(pieces, 1, Len(pieces) - 1) ELSE pieces

\* string.whitespace
Whitespace == <<" ", "TAB", "LF", "CR", "VT", "FF">>

\* line in string.whitespace: the line is a substring of it
InWhitespace(line) ==
    \E i \in 0..(Len(Whitespace) - Len(line)) :
        SubSeq(Whitespace, i + 1, i + Len(line)) = line

KeptLine(line) == ~InWhitespace(line)

\* header_lines
HeaderLines(bytes) == SelectSeq(SplitLines(DecodeHeader(bytes)), KeptLine)

\* line.startswith("# ")
IsComment(line) == Len(line) >= 2 /\ line[1] = "#" /\ line[2] = " "

\* The body of the loop over header_lines.
AddLine(header_dict, line) ==
    IF IsComment(line) THEN header_dict
    ELSE LET splitted == Split(line, "=")
         IN  IF Len(splitted) = 1 THEN (splitted[1] :> <<>>) @@ header_dict
             ELSE IF \E i \in 1..Len(splitted[2]) : splitted[2][i] = "__#ERR#__"
             THEN (splitted[1] :> <<"#DECODING_ERROR#">>) @@ header_dict
             ELSE (splitted[1] :> splitted[2]) @@ header_dict

RECURSIVE AddLines(_, _)
AddLines(header_dict, lines) ==
    IF lines = <<>> THEN header_dict
    ELSE AddLines(AddLine(header_dict, Head(lines)), Tail(lines))

\* header_dict after the loop: keys and values are texts.
HeaderDictOf(bytes) ==
    AddLines(<<"xdr_filename">> :> XdrFilename, HeaderLines(bytes))

ScanInit ==
    /\ XVIIdle
    /\ ReadIdle
    /\ PostIdle
    /\ HeaderIdle
    /\ stream \in Streams
    /\ scan_pc = "scan"
    /\ stream_tell = 0
    /\ text_header = <<>>
    /\ form_feed = FALSE
    /\ initial_header = <<>>
    /\ header_counter = 0
    /\ scan_dict = <<>>
    /\ scan_error = ""

ScanRaise(error) ==
    /\ scan_error' = error
    /\ scan_pc' = "done"

\* file_handler.read(1): <<the next byte>>, or the empty bytes at the end.
Read1 == IF stream_tell = Len(stream) THEN <<>> ELSE <<stream[stream_tell + 1]>>

\* The test of next_character against the empty str: the stream is binary,
\* and bytes never equal a str.
EqualsEmptyStrAtEnd(bytes) == bytes = <<>>
EqualsEmptyStr(bytes) == FALSE

\* One turn of the while loop of read(), lines 274-293.
ScanByte ==
    /\ scan_pc = "scan"
    /\ IF EqualsEmptyStr(Read1)
       THEN \* break
            /\ scan_pc' = "lines"
            /\ UNCHANGED <<stream_tell, text_header, form_feed, initial_header,
                           header_counter, scan_error>>
       ELSE IF Read1 = <<>>
       THEN \* ord() of the empty bytes raises TypeError
            /\ ScanRaise("TypeError: ord()")
            /\ UNCHANGED <<stream_tell, text_header, form_feed, initial_header,
                           header_counter>>
       ELSE LET next_character == Read1[1]
            IN  /\ stream_tell' = stream_tell + 1
                /\ IF IsTerminator(next_character, form_feed)
                   THEN /\ scan_pc' = "lines"
                        /\ UNCHANGED <<text_header, form_feed, initial_header,
                                       header_counter, scan_error>>
                   ELSE /\ text_header' = Append(text_header, next_character)
                        /\ form_feed' = (next_character = 12)
                        /\ IF header_counter <= 4
                           THEN IF Decode(next_character) = <<>>
                                THEN /\ ScanRaise("UnicodeDecodeError")
                                     /\ UNCHANGED <<initial_header, header_counter>>
                                ELSE /\ initial_header' =
                                          initial_header \o Decode(next_character)
                                     /\ header_counter' = header_counter + 1
                                     /\ UNCHANGED <<scan_pc, scan_error>>
                           ELSE IF /\ header_counter = 5
                                   /\ initial_header # <<"#", " ", "A", "V", "S">>
                           THEN \* file_handler.close(); raise RuntimeError
                                /\ ScanRaise("RuntimeError: Header of XDR file should start with # AVS")
                                /\ UNCHANGED <<initial_header, header_counter>>
                           ELSE /\ header_counter' = header_counter + 1
                                /\ UNCHANGED <<initial_header, scan_pc, scan_error>>
    /\ UNCHANGED <<stream, scan_dict, xvi_vars, read_vars, post_vars, hdr_vars>>

\* read(), lines 295-319: decode the header, split it into lines and build
\* header_dict.
BuildHeaderDict ==
    /\ scan_pc = "lines"
    /\ scan_dict' = <<HeaderDictOf(text_header)>>
    /\ scan_pc' = "done"
    /\ UNCHANGED <<stream, stream_tell, text_header, form_feed, initial_header,
                   header_counter, scan_error, xvi_vars, read_vars, post_vars, hdr_vars>>

ScanNext ==
    \/ ScanByte
    \/ BuildHeaderDict

SpecScan == ScanInit /\ [][ScanNext]_vars

\* The streams of the fair specification: shorter bodies, and a start that
\* is not the magic.
MaxFairBody == 3

FairStreams ==
    {start \o body \o end :
        start \in StreamStarts \cup {<<35, 32, 65, 86, 107>>},
        body \in UNION {[1..n -> BodyBytes] : n \in 0..MaxFairBody},
        end \in StreamEnds}

ScanInitFair ==
    /\ XVIIdle
    /\ ReadIdle
    /\ PostIdle
    /\ HeaderIdle
    /\ stream \in FairStreams
    /\ scan_pc = "scan"
    /\ stream_tell = 0
    /\ text_header = <<>>
    /\ form_feed = FALSE
    /\ initial_header = <<>>
    /\ header_counter = 0
    /\ scan_dict = <<>>
    /\ scan_error = ""

\* read() is one synchronous call: while a turn of its loop can be taken, it
\* is taken.
SpecScanFair == ScanInitFair /\ [][ScanNext]_vars /\ WF_vars(ScanByte)

(***************************************************************************)
(* XDR: the claims about the header scan                                   *)
(***************************************************************************)
\* The positions of the form feeds that come right after a form feed.
DoubleFormFeeds == {i \in 2..Len(stream) : stream[i] = 12 /\ stream[i - 1] = 12}

FirstDoubleFormFeed == CHOOSE i \in DoubleFormFeeds : \A j \in DoubleFormFeeds : i <= j

\* The loop was left by its break.
ScanEnded == scan_pc = "lines" \/ scan_dict # <<>>

\* C13: the scan ends exactly at the first form feed that follows a form
\* feed: until then every byte, a lone form feed too, is kept as header text,
\* and when it ends the stream is right after that form feed.
C13_ScanEndsAtFirstDoubleFormFeed ==
    /\ scan_pc = "scan" =>
         /\ \A i \in DoubleFormFeeds : i > stream_tell
         /\ text_header = SubSeq(stream, 1, stream_tell)
    /\ ScanEnded =>
         /\ DoubleFormFeeds # {}
         /\ stream_tell = FirstDoubleFormFeed
         /\ text_header = SubSeq(stream, 1, FirstDoubleFormFeed - 1)

\* The scan of a stream that starts with the magic ended after a lone form
\* feed that it kept, with payload bytes left in the stream.
C13_Witness ==
    /\ ScanEnded
    /\ Len(stream) >= 5
    /\ SubSeq(stream, 1, 5) = <<35, 32, 65, 86, 83>>
    /\ stream_tell < Len(stream)
    /\ \E i \in 2..(Len(text_header) - 1) :
         text_header[i] = 12 /\ text_header[i - 1] # 12 /\ text_header[i + 1] # 12

\* C14: a stream of six bytes or more whose first five bytes are not the
\* magic fails with the magic-mismatch error, with at most six bytes read.
C14_WrongMagicFailsFast ==
    (/\ scan_pc = "done"
     /\ Len(stream) >= 6
     /\ SubSeq(stream, 1, 5) # <<35, 32, 65, 86, 83>>) =>
        /\ scan_error = "RuntimeError: Header of XDR file should start with # AVS"
        /\ stream_tell <= 6

\* The text after the first = of a line, empty if the line has none.
AfterFirstEquals(line) == Join(Tail(Split(line, "=")), "=")

HasMarker(text) == \E i \in 1..Len(text) : text[i] = "__#ERR#__"

\* Line i is the last line of the header that sets its key.
SetsItsKey(lines, i) ==
    /\ ~IsComment(lines[i])
    /\ \A j \in (i + 1)..Len(lines) :
         IsComment(lines[j]) \/ Split(lines[j], "=")[1] # Split(lines[i], "=")[1]

\* C15: an undecodable byte never aborts the scan, wherever it is in the
\* header, and a line key=value (one =) whose value has the marker is
\* recorded with the placeholder value.
C15_UndecodableByteNeverAborts ==
    scan_pc = "done" =>
        /\ scan_error # "UnicodeDecodeError"
        /\ scan_dict # <<>> =>
             LET lines == HeaderLines(text_header)
             IN  \A i \in 1..Len(lines) :
                   (/\ SetsItsKey(lines, i)
                    /\ Len(Split(lines[i], "=")) = 2
                    /\ HasMarker(Split(lines[i], "=")[2])) =>
                       scan_dict[1][Split(lines[i], "=")[1]] = <<"#DECODING_ERROR#">>

\* C16: for every line that is neither blank nor a comment (and has no
\* undecodable byte), the key is the text before the first = and the value
\* is all of the text after the first =, empty if there is no =.
C16_KeyValueSplitAtFirstEquals ==
    (scan_pc = "done" /\ scan_dict # <<>>) =>
        LET lines == HeaderLines(text_header)
        IN  \A i \in 1..Len(lines) :
              (SetsItsKey(lines, i) /\ ~HasMarker(lines[i])) =>
                 /\ Split(lines[i], "=")[1] \in DOMAIN scan_dict[1]
                 /\ scan_dict[1][Split(lines[i], "=")[1]] = AfterFirstEquals(lines[i])

\* The loop over the bytes was left, by its break or by an exception.
LoopLeft == scan_pc # "scan"

\* The stream holds no header terminator.
Unterminated == DoubleFormFeeds = {}

MaxSlack == 2

\* The length in bytes of the text header including its terminator.
HeaderBytes == 64

\* How a header names an external payload: not at all, with a variable 1 file
\* line, or with that line and a line xdr_filename=data of its own, which
\* replaces the entry read() starts the dictionary with.
ExternalKinds == {"none", "file", "file and xdr_filename"}

\* The header_dict read() builds from the lines of a header: numbers are the
\* text of the line, the sample kind and the field are names, the phase is
\* the sequence of its weights.
HeaderDict(dims, veclen, data, compression, phase, external) ==
    ("xdr_filename" :> IF external = "file and xdr_filename" THEN XdrDirectory
                       ELSE XdrFilename) @@
    ("ndim" :> str(Len(dims))) @@ ("field" :> "uniform") @@
    [k \in {DimNames[i] : i \in 1..Len(dims)} |->
        str(dims[CHOOSE i \in 1..Len(dims) : DimNames[i] = k])] @@
    ("veclen" :> str(veclen)) @@ ("data" :> data) @@
    (IF compression > 0 THEN "nki_compression" :> str(compression) ELSE <<>>) @@
    (IF phase # None THEN "#$$PH" :> phase ELSE <<>>) @@
    (IF external # "none"
     THEN "variable 1 file" :> <<"vol.raw", " ", "filetype">> ELSE <<>>)

ReadDims == {<<2, 1, 1>>, <<1, 1, 1, 1>>, <<1, 1, 1, 2>>}
ReadPhases == {None, <<5000, 5000>>, <<5000, 4000>>}
ReadKinds == DOMAIN XDR_DTYPE_TO_PYTHON \cup {"short"}

ReadHeaderDicts ==
    {HeaderDict(dims, veclen, data, compression, phase, external) :
        dims \in ReadDims, veclen \in {1, 2}, data \in ReadKinds,
        compression \in {0, 1}, phase \in ReadPhases, external \in ExternalKinds}

\* The container layout [payload][ndim x (min: f32be, max: f32be)]: the bytes
\* a writer puts after the header for this header's shape and sample kind.
PayloadBytes(header_dict) ==
    LET dims == [i \in 1..int(header_dict["ndim"])[1] |->
                    int(header_dict[DimNames[i]])[1]]
        width == IF header_dict["data"] \in DOMAIN XDR_DTYPE_TO_PYTHON
                 THEN ItemSize(XDR_DTYPE_TO_PYTHON[header_dict["data"]]) ELSE 2
    IN  Prod(dims) * int(header_dict["veclen"])[1] * width

ExtentBytes(header_dict) == int(header_dict["ndim"])[1] * 2 * 4

\* Sizes of the data after the header: nothing, or the layout give or take
\* the slack.
DataSizes(header_dict) ==
    {0} \cup {n \in {PayloadBytes(header_dict) + ExtentBytes(header_dict) + d :
                       d \in -MaxSlack..MaxSlack} : n >= 0}

\* scan: how the header scan of the file ends. ok: the magic and a terminated
\* header; magic: six bytes that do not start with the magic; eof: the end
\* of the file before a terminator.
XDRFiles ==
    UNION {{[scan |-> "ok", header_dict |-> hd, size |-> HeaderBytes + n] :
               n \in DataSizes(hd)} : hd \in ReadHeaderDicts}
    \cup {[scan |-> k, header_dict |-> <<>>, size |-> HeaderBytes] : k \in {"magic", "eof"}}

\* The sibling file of an external header: absent, or of a data size.
ExternalFiles(file) ==
    IF "variable 1 file" \in DOMAIN file.header_dict
    THEN {None} \cup {<<n>> : n \in DataSizes(file.header_dict)}
    ELSE {None}

(***************************************************************************)
(* XDR: read(), the code                                                   *)
(***************************************************************************)
\* open(path, "rb") of a path other than xdr_filename: only the sibling
\* file can be there.
CanOpen(path) == path = SiblingFile /\ ext_file # None

\* path.getsize / the size of the file a stream is opened on
StreamSize(file) == IF file = "ext" THEN ext_file[1] ELSE xdr_file.size

\* np.fromfile(file_handler, dtype, count): the items read and tell() after.
\* A negative count reads every whole item to the end of the file; a count
\* beyond the end of the file reads what is there.
FromFile(tell, size, itemsize, count) ==
    LET there == (size - tell) \div itemsize
    IN  IF count < 0 THEN [items |-> there, tell |-> tell + there * itemsize]
        ELSE IF count <= there THEN [items |-> count, tell |-> tell + count * itemsize]
        ELSE [items |-> there, tell |-> size]

Raise(error) ==
    /\ read_result' = error
    /\ read_pc' = "done"

read_inputs == <<xdr_file, ext_file, stop_before_data, nki_decompression_available>>

\* read(), lines 266-293: open the file and scan the header byte by byte.
ReadScanHeader ==
    /\ read_pc = "call"
    /\ CASE xdr_file.scan = "magic" ->
              \* file_handler.close(); raise RuntimeError
              /\ open_files' = {}
              /\ file_handler' = [file |-> "xdr", tell |-> 6]
              /\ Raise("RuntimeError: Header of XDR file should start with # AVS")
         [] xdr_file.scan = "eof" ->
              \* read(1) returns empty bytes, which do not equal the empty str, and
              \* ord() of them raises TypeError
              /\ open_files' = {"xdr"}
              /\ file_handler' = [file |-> "xdr", tell |-> xdr_file.size]
              /\ Raise("TypeError: ord()")
         [] xdr_file.scan = "ok" ->
              /\ open_files' = {"xdr"}
              /\ file_handler' = [file |-> "xdr", tell |-> HeaderBytes]
              /\ read_pc' = "header"
              /\ UNCHANGED read_result
    /\ UNCHANGED <<read_inputs, header, raw_data, data_shape, decompress_calls,
                   xvi_vars, post_vars, hdr_vars, scan_vars>>

\* read(), lines 295-323: decode the header text, build the XDRHeader and
\* return it alone when stop_before_data is set.
ReadHeader ==
    /\ read_pc = "header"
    /\ LET h == XDRHeader(xdr_file.header_dict)
       IN  /\ header' = h.header
           /\ IF h.error # "" THEN Raise(h.error)
              ELSE IF stop_before_data
              THEN /\ read_result' = "XDRImage(data=None)"
                   /\ read_pc' = "done"
              ELSE /\ read_pc' = "decode"
                   /\ UNCHANGED read_result
    /\ UNCHANGED <<read_inputs, file_handler, open_files, raw_data, data_shape,
                   decompress_calls, xvi_vars, post_vars, hdr_vars, scan_vars>>

\* if not nki_decompression_available
CodecMissingNever(available) == FALSE
CodecMissing(available) == ~available

\* read(), lines 326-347: the compressed payload.
ReadCompressed ==
    /\ read_pc = "decode"
    /\ header[1].compression > 0
    /\ IF CodecMissing(nki_decompression_available)
       THEN /\ Raise("ValueError: Decompression library not compiled")
            /\ UNCHANGED <<file_handler, open_files, raw_data, decompress_calls>>
       ELSE LET image_data_offset == file_handler.tell
                extent_data_offset == xdr_file.size - header[1].ndim * 2 * 4
                comp_size == extent_data_offset - image_data_offset
                source_data == FromFile(file_handler.tell, xdr_file.size, 1, comp_size)
            IN  /\ raw_data' = header[1].size
                /\ decompress_calls' = decompress_calls + 1
                /\ file_handler' = [file_handler EXCEPT !.tell = source_data.tell]
                /\ IF source_data.tell # extent_data_offset
                   THEN /\ open_files' = open_files \ {"xdr"}
                        /\ Raise("IOError: Error in reading binary data")
                   ELSE /\ read_pc' = "extents"
                        /\ UNCHANGED <<open_files, read_result>>
    /\ UNCHANGED <<read_inputs, header, data_shape, xvi_vars, post_vars, hdr_vars, scan_vars>>

\* read(), lines 349-365: the uncompressed payload, from the file itself or
\* from the external file.
ReadUncompressed ==
    /\ read_pc = "decode"
    /\ ~(header[1].compression > 0)
    /\ IF header[1].external_data # None /\ ~CanOpen(header[1].external_data)
       THEN \* file_handler.close(); open(header.external_data) raises
            /\ open_files' = open_files \ {"xdr"}
            /\ file_handler' = [file |-> "none", tell |-> 0]
            /\ Raise("OSError: open")
            /\ UNCHANGED raw_data
       ELSE LET external == header[1].external_data # None
                file == IF external THEN "ext" ELSE "xdr"
                tell == IF external THEN 0 ELSE file_handler.tell
                dtype == header[1].dtype
                r == IF dtype = "uint8"
                     THEN FromFile(tell, StreamSize(file), 1, -1)
                     ELSE FromFile(tell, StreamSize(file), ItemSize(dtype),
                                   header[1].size * header[1].veclen)
            IN  /\ open_files' = IF external THEN (open_files \ {"xdr"}) \cup {"ext"}
                                 ELSE open_files
                /\ file_handler' = [file |-> file, tell |-> r.tell]
                /\ raw_data' = r.items
                /\ read_pc' = "extents"
                /\ UNCHANGED read_result
    /\ UNCHANGED <<read_inputs, header, data_shape, decompress_calls,
                   xvi_vars, post_vars, hdr_vars, scan_vars>>

\* shape = header.shape, with the vector axis when veclen != 1
Shape(h) == IF h.veclen # 1 THEN Append(h.shape, h.veclen) ELSE h.shape

\* raw_data.reshape(shape) raises ValueError unless the elements fill the shape
ReshapeFits(h, items) == items = Prod(Shape(h))

\* read(), lines 367-393: the trailing extents, the end-of-file check, the
\* close and the reshape.
ReadExtents ==
    /\ read_pc = "extents"
    /\ LET h == header[1]
           file == file_handler.file
           floats == FromFile(file_handler.tell, StreamSize(file), 4, h.ndim * 2)
       IN  /\ file_handler' = [file_handler EXCEPT !.tell = floats.tell]
           /\ IF floats.items < h.ndim * 2
              THEN \* np.fromfile(..., count=1)[0] on an empty array
                   /\ header' = <<[h EXCEPT
                                     !.min_ext = [i \in 1..((floats.items + 1) \div 2) |-> "f4"],
                                     !.max_ext = [i \in 1..(floats.items \div 2) |-> "f4"]]>>
                   /\ Raise("IndexError")
                   /\ UNCHANGED <<open_files, data_shape>>
              ELSE /\ header' = <<[h EXCEPT !.min_ext = [i \in 1..h.ndim |-> "f4"],
                                            !.max_ext = [i \in 1..h.ndim |-> "f4"]]>>
                   /\ open_files' = open_files \ {file}
                   /\ IF floats.tell # xdr_file.size
                      THEN Raise("IOError: Unexpected extra bytes") /\ UNCHANGED data_shape
                      ELSE IF ~ReshapeFits(h, raw_data)
                      THEN Raise("ValueError: reshape") /\ UNCHANGED data_shape
                      ELSE /\ data_shape' = <<Shape(h)>>
                           /\ read_result' = "XDRImage"
                           /\ read_pc' = "done"
    /\ UNCHANGED <<read_inputs, raw_data, decompress_calls, xvi_vars, post_vars, hdr_vars, scan_vars>>

ReadInit ==
    /\ XVIIdle
    /\ PostIdle
    /\ HeaderIdle
    /\ ScanIdle
    /\ xdr_file \in XDRFiles
    /\ ext_file \in ExternalFiles(xdr_file)
    /\ stop_before_data \in BOOLEAN
    /\ nki_decompression_available \in BOOLEAN
    /\ read_pc = "call"
    /\ file_handler = [file |-> "none", tell |-> 0]
    /\ open_files = {}
    /\ header = <<>>
    /\ raw_data = 0
    /\ data_shape = None
    /\ decompress_calls = 0
    /\ read_result = ""

ReadNext ==
    \/ ReadScanHeader
    \/ ReadHeader
    \/ ReadCompressed
    \/ ReadUncompressed
    \/ ReadExtents

SpecRead == ReadInit /\ [][ReadNext]_vars

(***************************************************************************)
(* XDR: the claims about read()                                            *)
(***************************************************************************)
\* Where the payload starts in the stream the decoder reads: after the header
\* of the XDR file, or at the start of the external file.
DataStart == IF file_handler.file = "ext" THEN 0 ELSE HeaderBytes

\* shape_product x veclen elements of the sample kind's width
ClaimedPayloadBytes ==
    header[1].size * header[1].veclen * ItemSize(header[1].dtype)

ClaimedExtentBytes == header[1].ndim * 2 * 4

\* C5: on the uncompressed path, for every supported sample kind, the decoder
\* consumes exactly shape_product x veclen elements of the kind's width from a
\* stream that holds them, and in a file of exactly the container layout
\* leaves the stream at the first byte of the trailing extents.
C5_UncompressedDecodeConsumesExactly ==
    (/\ read_pc = "extents"
     /\ header[1].compression = 0
     /\ StreamSize(file_handler.file) - DataStart >= ClaimedPayloadBytes) =>
        /\ file_handler.tell = DataStart + ClaimedPayloadBytes
        /\ (StreamSize(file_handler.file) = DataStart + ClaimedPayloadBytes + ClaimedExtentBytes
              => file_handler.tell = StreamSize(file_handler.file) - ClaimedExtentBytes)

\* The uncompressed decoder and the extents step have run on a stream.
ReadPastPayload ==
    /\ read_pc = "done"
    /\ header # <<>>
    /\ header[1].compression = 0
    /\ ~stop_before_data
    /\ file_handler.file # "none"

\* C6: after the payload, read consumes ndim x 2 x 4 bytes of extents; it
\* returns a volume only with the stream exactly at the end of the file, and
\* any byte after the extents makes it fail with Unexpected extra bytes.
C6_ExtentsThenExactlyEndOfFile ==
    ReadPastPayload =>
        /\ (StreamSize(file_handler.file) > DataStart + ClaimedPayloadBytes + ClaimedExtentBytes
              => read_result = "IOError: Unexpected extra bytes")
        /\ (read_result = "XDRImage"
              => /\ file_handler.tell = DataStart + ClaimedPayloadBytes + ClaimedExtentBytes
                 /\ file_handler.tell = StreamSize(file_handler.file))

\* C7: when read has returned or raised, no file it opened is still open.
C7_EveryHandleClosedOnExit ==
    read_pc = "done" => open_files = {}

\* C8: a constructed header exposes a validated phase array as header.phase,
\* and header.phase is None only when the header has no phase key.
C8_PhaseExposed ==
    header # <<>> =>
        /\ ("#$$PH" \in DOMAIN xdr_file.header_dict
              => header[1].phase = xdr_file.header_dict["#$$PH"])
        /\ (header[1].phase = None => "#$$PH" \notin DOMAIN xdr_file.header_dict)

\* The directory that contains the file at a path: the text before its last
\* slash.
DirectoryOf(path) ==
    LET parts == Split(path, "/")
    IN  Join(SubSeq(parts, 1, Len(parts) - 1), "/")

\* The first whitespace-delimited token of a value.
FirstToken(value) ==
    LET pieces == Split(value, " ")
        first == CHOOSE i \in 1..Len(pieces) :
                    pieces[i] # <<>> /\ \A j \in 1..(i - 1) : pieces[j] = <<>>
    IN  pieces[first]

\* C12: for a header with a variable 1 file key, header.external_data is the
\* directory of the XDR file joined with the first token of the value, and
\* when that sibling file exists the uncompressed decoder opens it and reads
\* the samples from it.
C12_ExternalPayloadIsSibling ==
    (header # <<>> /\ "variable 1 file" \in DOMAIN xdr_file.header_dict) =>
        /\ header[1].external_data =
             DirectoryOf(XdrFilename) \o <<"/">>
                \o FirstToken(xdr_file.header_dict["variable 1 file"])
        /\ (read_pc = "done" /\ ext_file # None => read_result # "OSError: open")
        /\ (read_pc = "extents" /\ header[1].compression = 0 => file_handler.file = "ext")

\* dim1, ..., dimN and veclen as the header of the file gives them.
FileDims ==
    [i \in 1..int(xdr_file.header_dict["ndim"])[1] |->
        int(xdr_file.header_dict[DimNames[i]])[1]]

FileVeclen == int(xdr_file.header_dict["veclen"])[1]

\* C19: the shape of a constructed header is dim1..dimN in reverse order, and
\* the data read returns holds dim1 x ... x dimN x veclen elements in that
\* shape, with a last axis of size veclen exactly when veclen > 1.
C19_ShapeIsReversedDims ==
    /\ header # <<>> =>
         /\ Len(header[1].shape) = Len(FileDims)
         /\ \A i \in 1..Len(FileDims) :
              header[1].shape[i] = FileDims[Len(FileDims) + 1 - i]
    /\ read_result = "XDRImage" =>
         /\ raw_data = Prod(FileDims) * FileVeclen
         /\ data_shape = <<IF FileVeclen > 1
                            THEN Append(header[1].shape, FileVeclen)
                            ELSE header[1].shape>>

\* read returned a volume of two components per sample whose axes are not the
\* same read forwards and backwards.
C19_Witness ==
    /\ read_result = "XDRImage"
    /\ FileDims = <<2, 1, 1>>
    /\ FileVeclen = 2
    /\ data_shape = << <<1, 1, 2, 2>> >>
    /\ raw_data = 4

\* read has ended on a file whose header asks for decompression, in a
\* process in which the codec was not loaded.
EndedWithoutCodec ==
    /\ read_pc = "done"
    /\ header # <<>>
    /\ header[1].compression > 0
    /\ ~nki_decompression_available

\* read raised an exception, called no decompression and returned no volume.
FailedWithoutDecompressing ==
    /\ read_result \notin {"", "XDRImage", "XDRImage(data=None)"}
    /\ decompress_calls = 0
    /\ data_shape = None

\* C21 as stated: no step of read changes the availability flag, and a read
\* of a compressed file without the codec ends in an error, with no call of
\* the decompression routine and no volume.
C21_NoCodecFails ==
    [][/\ nki_decompression_available' = nki_decompression_available
       /\ (EndedWithoutCodec => FailedWithoutDecompressing)']_vars

\* C21 for a read that was asked for the data (stop_before_data false): it
\* ends in the ValueError of the missing library.
C21_NoCodecFailsWhenDataIsRead ==
    [][/\ nki_decompression_available' = nki_decompression_available
       /\ ((EndedWithoutCodec /\ ~stop_before_data) =>
             (/\ FailedWithoutDecompressing
              /\ read_result = "ValueError: Decompression library not compiled"))']_vars

C21_Witness ==
    /\ EndedWithoutCodec
    /\ ~stop_before_data
    /\ read_result = "ValueError: Decompression library not compiled"
    /\ decompress_calls = 0
    /\ file_handler.tell = HeaderBytes

(***************************************************************************)
(* Post-processing: bounds and inputs                                      *)
(***************************************************************************)
\* The most time steps of a 4D volume.
MaxT == 2

\* A volume has two voxels per time step; samples are small integers.
Voxels == {1, 2}
SampleValues == {-1, 2}

\* Numbers are fractions n/d with d > 0; an array shares one denominator
\* (den) over all its elements.
Frac(n, d) == [n |-> n, d |-> d]

Volumes3D == [Voxels -> SampleValues]
Volumes4D == UNION {[1..T -> Volumes3D] : T \in 1..MaxT}

\* The phase vectors a caller can have put on the header of a 4D volume of
\* T time steps: weights in units of 1/PhaseUnit that sum to 1.
PhasesFor(T) ==
    {w \in [1..T -> {2500, 5000, 7500, 10000}] : SumSeq(w) = PhaseUnit}

\* XDRImage(header, data) as read() returns it: one min_ext and one max_ext
\* per axis; read() leaves header.phase None, a caller may set it.
Image(ndim, a, phase) ==
    [header |-> [ndim |-> ndim, phase |-> phase,
                 min_ext |-> [i \in 1..ndim |-> "f4"],
                 max_ext |-> [i \in 1..ndim |-> "f4"]],
     data |-> [ndim |-> ndim, a |-> a, den |-> 1, dtype |-> "int16"]]

GivenImages ==
    {Image(3, a, None) : a \in Volumes3D}
    \cup UNION {{Image(4, a, phase) : phase \in {None} \cup PhasesFor(Len(a))} : a \in Volumes4D}

\* An optional argument is None or <<its value>>.
TemporalAverages == {None, <<"mean">>, <<"weighted">>, <<"median">>}
Slopes == {None, <<Frac(0, 1)>>, <<Frac(2, 1)>>, <<Frac(1, 2)>>}
Intercepts == {None, <<Frac(0, 1)>>, <<Frac(1, 1)>>}
Casts == {None, <<"int16">>, <<"float32">>, <<"int8">>}

PostArgs ==
    [temporal_average : TemporalAverages, slope : Slopes, intercept : Intercepts, cast : Casts]

(***************************************************************************)
(* Post-processing: the code                                               *)
(***************************************************************************)
\* DATATYPES (utils.py)
DATATYPES == {"int16", "int32", "int64", "uint16", "uint32", "float32", "float64"}

IsIntegerKind(dtype) == dtype \in {"int16", "int32", "int64", "uint16", "uint32"}

\* Python truthiness of an optional argument: None, 0.0 and the empty string
\* are false.
TruthyFloat(arg) == arg # None /\ arg[1].n # 0
TruthyStr(arg) == arg # None /\ arg[1] # ""

\* make_integer(z): an int when z.is_integer(), else the float.
IsInteger(z) == z.n % z.d = 0

\* (weights * data.T).T.sum(axis=0) on a (T, voxels) array: weights is the
\* scalar 1.0 or one weight per time step, in units of 1/unit.
WeightedSum(data, weights, unit) ==
    [data EXCEPT !.ndim = 3,
                 !.a = [v \in Voxels |->
                          SumSeq([t \in 1..Len(data.a) |-> weights[t] * data.a[t][v]])],
                 !.den = data.den * unit,
                 !.dtype = "float64"]

\* The temporal_average block: <<error, warnings, image>>.
TemporalAverage(image, temporal_average) ==
    IF temporal_average \notin {"mean", "weighted"}
    THEN [error |-> "SystemExit: --temporal-average must be either mean or weighted",
          log |-> {}, image |-> image]
    ELSE IF image.header.ndim # 4
    THEN [error |-> "SystemExit: --temporal-average can only be used with 4D images",
          log |-> {}, image |-> image]
    ELSE IF temporal_average = "weighted" /\ "phase" \notin DOMAIN image.header
    THEN [error |-> "",
          log |-> {"Phase is not available. Temporal average will be mean."},
          image |-> [header |-> [image.header EXCEPT !.ndim = 3],
                     data |-> WeightedSum(image.data, [t \in 1..Len(image.data.a) |-> 1], 1)]]
    ELSE IF temporal_average = "weighted" /\ image.header.phase = None
    THEN \* np.asarray(None) * data.T raises TypeError
         [error |-> "TypeError", log |-> {}, image |-> image]
    ELSE IF temporal_average = "weighted"
    THEN [error |-> "", log |-> {},
          image |-> [header |-> [image.header EXCEPT !.ndim = 3],
                     data |-> WeightedSum(image.data, image.header.phase, PhaseUnit)]]
    ELSE [error |-> "", log |-> {},
          image |-> [header |-> [image.header EXCEPT !.ndim = 3],
                     data |-> WeightedSum(image.data, [t \in 1..Len(image.data.a) |-> 1], 1)]]

\* Elementwise x * mul + add over a 3D (voxels) or 4D (T, voxels) array.
Elementwise(data, mul, add) ==
    IF data.ndim = 4
    THEN [t \in 1..Len(data.a) |-> [v \in Voxels |-> data.a[t][v] * mul + add]]
    ELSE [v \in Voxels |-> data.a[v] * mul + add]

ResultKind(dtype, z) == IF IsInteger(z) THEN dtype ELSE "float64"

\* xdr_image.data * make_integer(slope)
Multiply(data, slope) ==
    [data EXCEPT !.a = Elementwise(data, slope.n, 0),
                 !.den = data.den * slope.d,
                 !.dtype = ResultKind(data.dtype, slope)]

\* xdr_image.data + make_integer(intercept)
Add(data, intercept) ==
    [data EXCEPT !.a = Elementwise(data, intercept.d, intercept.n * data.den),
                 !.den = data.den * intercept.d,
                 !.dtype = ResultKind(data.dtype, intercept)]

\* The bits of an integer kind.
Bits(dtype) ==
    CASE dtype \in {"int16", "uint16"} -> 16
      [] dtype \in {"int32", "uint32"} -> 32
      [] dtype = "int64" -> 64

\* One element n/den converted by astype: integer kinds truncate toward zero
\* and wrap to their width; float kinds keep the value.
AsType(n, den, dtype) ==
    LET trunc == IF n >= 0 THEN n \div den ELSE -((-n) \div den)
        wrapped == trunc % (2 ^ Bits(dtype))
    IN  IF dtype \in {"uint16", "uint32"} THEN wrapped
        ELSE IF wrapped >= 2 ^ (Bits(dtype) - 1) THEN wrapped - 2 ^ Bits(dtype)
        ELSE wrapped

\* xdr_image.data.astype(DATATYPES[cast])
Cast(data, cast) ==
    IF IsIntegerKind(cast)
    THEN [data EXCEPT !.a = IF data.ndim = 4
                            THEN [t \in 1..Len(data.a) |->
                                    [v \in Voxels |-> AsType(data.a[t][v], data.den, cast)]]
                            ELSE [v \in Voxels |-> AsType(data.a[v], data.den, cast)],
                      !.den = 1,
                      !.dtype = cast]
    ELSE [data EXCEPT !.dtype = cast]

\* postprocess_xdr_image: <<error, warnings, image>>. The image is changed
\* in place, so what was done before an error stays done.
Postprocess(image, args) ==
    LET t == IF TruthyStr(args.temporal_average)
             THEN TemporalAverage(image, args.temporal_average[1])
             ELSE [error |-> "", log |-> {}, image |-> image]
        s == IF TruthyFloat(args.slope)
             THEN [t.image EXCEPT !.data = Multiply(t.image.data, args.slope[1])]
             ELSE t.image
        i == IF TruthyFloat(args.intercept)
             THEN [s EXCEPT !.data = Add(s.data, args.intercept[1])]
             ELSE s
    IN  IF t.error # "" THEN t
        ELSE IF ~TruthyStr(args.cast) THEN [error |-> "", log |-> t.log, image |-> i]
        ELSE IF args.cast[1] \notin DATATYPES
        THEN [error |-> "SystemExit: Expected casting type to be one of DATATYPES",
              log |-> t.log, image |-> i]
        ELSE [error |-> "", log |-> t.log,
              image |-> [i EXCEPT !.data = Cast(i.data, args.cast[1])]]

(***************************************************************************)
(* Post-processing: the specification                                      *)
(***************************************************************************)
PostInit ==
    /\ XVIIdle
    /\ ReadIdle
    /\ HeaderIdle
    /\ ScanIdle
    /\ post_args \in PostArgs
    /\ given_image \in GivenImages
    /\ xdr_image = given_image
    /\ post_pc = "call"
    /\ post_log = {}
    /\ post_result = ""

\* postprocess_xdr_image(xdr_image, temporal_average, slope, intercept, cast)
PostprocessXdrImage ==
    /\ post_pc = "call"
    /\ LET r == Postprocess(xdr_image, post_args)
       IN  /\ xdr_image' = r.image
           /\ post_log' = r.log
           /\ post_result' = IF r.error # "" THEN r.error ELSE "XDRImage"
    /\ post_pc' = "done"
    /\ UNCHANGED <<post_args, given_image, xvi_vars, read_vars, hdr_vars, scan_vars>>

PostNext == PostprocessXdrImage

SpecPost == PostInit /\ [][PostNext]_vars

(***************************************************************************)
(* Post-processing: the claims                                             *)
(***************************************************************************)
\* Only the temporal reduction was asked for, on a 4D volume.
OnlyTemporal(mode) ==
    /\ post_pc = "done"
    /\ post_args = [temporal_average |-> <<mode>>, slope |-> None,
                    intercept |-> None, cast |-> None]
    /\ given_image.header.ndim = 4

TimeSteps == Len(given_image.data.a)

\* The sum over the time steps of weights[t] x data[t] at voxel v.
SumOverTime(weights, v) ==
    SumSeq([t \in 1..TimeSteps |-> weights[t] * given_image.data.a[t][v]])

Ones == [t \in 1..TimeSteps |-> 1]

\* C9: mean on a 4D volume of T time steps returns, at every voxel, the sum
\* of the T input values divided by T, and header.ndim becomes 3.
C9_MeanIsArithmeticAverage ==
    OnlyTemporal("mean") =>
        /\ post_result = "XDRImage"
        /\ xdr_image.header.ndim = 3
        /\ \A v \in Voxels :
             xdr_image.data.a[v] * TimeSteps = SumOverTime(Ones, v) * xdr_image.data.den

\* C10: weighted on a 4D volume returns, at every voxel, the sum over t of
\* phase[t] x data[t] when the header has a phase vector; without one it does
\* not fail, logs a warning and returns what the unweighted reduction returns.
C10_WeightedUsesPhaseOrFallsBack ==
    OnlyTemporal("weighted") =>
        IF given_image.header.phase # None
        THEN /\ post_result = "XDRImage"
             /\ \A v \in Voxels :
                  xdr_image.data.a[v] * PhaseUnit
                    = SumOverTime(given_image.header.phase, v) * xdr_image.data.den
        ELSE /\ post_result = "XDRImage"
             /\ post_log # {}
             /\ xdr_image = Postprocess(given_image, [post_args EXCEPT
                                                        !.temporal_average = <<"mean">>]).image


\* C11: before and after post-processing the image of a successful read, the
\* header has as many min_ext and as many max_ext entries as header.ndim.
C11_ExtentsMatchNdim ==
    post_pc \in {"call", "done"} =>
        /\ Len(xdr_image.header.min_ext) = xdr_image.header.ndim
        /\ Len(xdr_image.header.max_ext) = xdr_image.header.ndim

\* An operation is applied exactly when its option was supplied.
Supplied(arg) == arg # None

\* The data after the operations supplied, in the order temporal reduction,
\* slope, intercept, cast; the reduction is the one the code computes.
AllSuppliedApplied ==
    LET reduced == IF Supplied(post_args.temporal_average)
                   THEN TemporalAverage(given_image, post_args.temporal_average[1]).image.data
                   ELSE given_image.data
        scaled == IF Supplied(post_args.slope)
                  THEN Multiply(reduced, post_args.slope[1])
                  ELSE reduced
        shifted == IF Supplied(post_args.intercept)
                   THEN Add(scaled, post_args.intercept[1])
                   ELSE scaled
    IN  IF Supplied(post_args.cast) THEN Cast(shifted, post_args.cast[1]) ELSE shifted

\* C23: when postprocess_xdr_image returns, the data is cast(reduced x slope
\* + intercept), each operation applied exactly when its option was
\* supplied, whatever float was supplied, 0.0 included.
C23_SuppliedOperationsApplied ==
    (post_pc = "done" /\ post_result = "XDRImage") =>
        xdr_image.data = AllSuppliedApplied

\* The failures by which postprocess_xdr_image rejects an option.
Rejections ==
    {"SystemExit: --temporal-average must be either mean or weighted",
     "SystemExit: --temporal-average can only be used with 4D images",
     "SystemExit: Expected casting type to be one of DATATYPES"}

\* C24: when postprocess_xdr_image rejects an option, the data and the
\* header.ndim of the image passed in are what they were before the call.
C24_RejectionLeavesImageUnchanged ==
    (post_pc = "done" /\ post_result \in Rejections) =>
        /\ xdr_image.data = given_image.data
        /\ xdr_image.header.ndim = given_image.header.ndim

====
